---- MODULE Spec2Model ----
(***************************************************************************)
(* Model of guppy's read-from-disk service                                 *)
(* (src/services/read-from-disk.service.js): the promise-returning file    *)
(* readers and writers, loadProject / loadProjects and the dependency      *)
(* loaders.  One action is one event-loop turn: a file-system callback     *)
(* together with the promise reactions (microtasks) it triggers.           *)
(*                                                                         *)
(* Two components follow: CommandsPane and AddCommandModal, each with the  *)
(* handlers that change its state.                                         *)
(***************************************************************************)
EXTENDS Integers, Sequences, FiniteSets, TLC

(***************************************************************************)
(* Bounds of the model.                                                    *)
(***************************************************************************)
\* nesting depth of the JSON values handed to writePackageJson
MaxDepth == 2
\* length of the arrays inside those values
MaxLen == 1
\* number of paths handed to loadProjects
MaxPaths == 2
\* number of commands of the project shown in CommandsPane
MaxCommands == 2

\* the third argument of JSON.stringify(json, null, 2)
IndentWidth == 2

(***************************************************************************)
(* The state.                                                              *)
(***************************************************************************)
VARIABLES
  disk,     \* the project's package.json on disk
  wr,       \* the promise of writePackageJson, with its json and its text
  rd,       \* the promise of loadPackageJson
  rdAfter,  \* loadPackageJson was called after writePackageJson resolved
  dirty     \* another writer changed the file after writePackageJson resolved

VARIABLES
  projectPaths,  \* the array handed to loadProjects
  proj,          \* per path: the promises of loadProject and of its four reads
  results,       \* asyncMap's results array, one slot per path
  order,         \* the paths in the order their loads settled
  lps            \* the promise loadProjects returned

VARIABLES
  installed,  \* node_modules: directory name -> its package.json on disk
  dpkg,       \* the promise of loadPackageJson in loadAllProjectDependencies
  queue,      \* the QueuedDependency array built from the descriptor
  dq,         \* per queue entry: the promise of loadProjectDependency
  dres,       \* asyncMap's results array in loadProjectDependencies
  lpd,        \* the promise loadProjectDependencies returned
  ladp,       \* the promise loadAllProjectDependencies returned
  single,     \* a direct call of loadProjectDependency: its arguments and promise
  seen        \* what the previous call of loadAllProjectDependencies read

VARIABLES
  commands,  \* CommandsPane: props.project.commands
  pane,      \* CommandsPane: this.state
  modal,     \* AddCommandModal: this.state
  lastEv     \* the event the component handled last

varsWrite == <<disk, wr, rd, rdAfter, dirty>>
varsProjects == <<projectPaths, proj, results, order, lps>>
varsDeps == <<installed, dpkg, queue, dq, dres, lpd, ladp, single, seen>>
varsUI == <<commands, pane, modal, lastEv>>
vars == <<varsWrite, varsProjects, varsDeps, varsUI>>

(***************************************************************************)
(* JSON values.  A value is a record tagged by its type; an object is the  *)
(* sequence of its <<key, value>> members in insertion order.              *)
(***************************************************************************)
JNull == [t |-> "null"]
JNum(n) == [t |-> "num", n |-> n]
JStr(s) == [t |-> "str", s |-> s]
JArr(a) == [t |-> "arr", a |-> a]
JObj(o) == [t |-> "obj", o |-> o]

IsScalar(v) == v.t \in {"null", "num", "str"}

\* obj[key] of JavaScript: the member's value, or Undefined
Undefined == [t |-> "undefined"]
HasKey(v, key) == v.t = "obj" /\ \E i \in 1..Len(v.o) : v.o[i][1] = key
Get(v, key) ==
  IF HasKey(v, key)
  THEN v.o[CHOOSE i \in 1..Len(v.o) : v.o[i][1] = key][2]
  ELSE Undefined

\* obj[key] = val of JavaScript: replaces in place, or appends a new member
SetKey(o, key, val) ==
  IF \E i \in 1..Len(o) : o[i][1] = key
  THEN [i \in 1..Len(o) |-> IF o[i][1] = key THEN <<key, val>> ELSE o[i]]
  ELSE Append(o, <<key, val>>)

\* Object.keys(obj)
ObjectKeys(v) == [i \in 1..Len(v.o) |-> v.o[i][1]]

(***************************************************************************)
(* JSON text: a sequence of tokens.  Scalars are one token each; the       *)
(* structure, the separators and the white space are tokens of their own.  *)
(***************************************************************************)
Punct(c) == [k |-> "p", c |-> c]
ScalarTok(v) == [k |-> "s", v |-> v]
LBrace == Punct("{")
RBrace == Punct("}")
LBracket == Punct("[")
RBracket == Punct("]")
Colon == Punct(":")
Comma == Punct(",")
NL == Punct("nl")
SP == Punct("sp")

Indent(d) == [i \in 1..(IndentWidth * d) |-> SP]

RECURSIVE StringifyAt(_, _)
RECURSIVE StringifyElems(_, _, _)
RECURSIVE StringifyMembers(_, _, _)

\* the elements a[i..] of an array, each on its own line at depth d
StringifyElems(a, i, d) ==
  IF i > Len(a) THEN <<>>
  ELSE <<NL>> \o Indent(d) \o StringifyAt(a[i], d)
       \o (IF i < Len(a) THEN <<Comma>> ELSE <<>>)
       \o StringifyElems(a, i + 1, d)

\* the members o[i..] of an object, each on its own line at depth d
StringifyMembers(o, i, d) ==
  IF i > Len(o) THEN <<>>
  ELSE <<NL>> \o Indent(d) \o <<ScalarTok(JStr(o[i][1])), Colon, SP>>
       \o StringifyAt(o[i][2], d)
       \o (IF i < Len(o) THEN <<Comma>> ELSE <<>>)
       \o StringifyMembers(o, i + 1, d)

StringifyAt(v, d) ==
  CASE IsScalar(v) -> <<ScalarTok(v)>>
    [] v.t = "arr" ->
         IF v.a = <<>> THEN <<LBracket, RBracket>>
         ELSE <<LBracket>> \o StringifyElems(v.a, 1, d + 1)
              \o <<NL>> \o Indent(d) \o <<RBracket>>
    [] v.t = "obj" ->
         IF v.o = <<>> THEN <<LBrace, RBrace>>
         ELSE <<LBrace>> \o StringifyMembers(v.o, 1, d + 1)
              \o <<NL>> \o Indent(d) \o <<RBrace>>

\* JSON.stringify(json, null, 2)
JSONstringify(v) == StringifyAt(v, 0)

(***************************************************************************)
(* JSON.parse: a recursive-descent parser over the tokens.  A parse step   *)
(* returns [ok, v, next]; ok = FALSE is the SyntaxError JSON.parse throws. *)
(***************************************************************************)
ParseFail == [ok |-> FALSE, v |-> Undefined, next |-> 0]
ParseOk(v, next) == [ok |-> TRUE, v |-> v, next |-> next]

IsWs(tok) == tok \in {NL, SP}

RECURSIVE SkipWs(_, _)
SkipWs(text, i) ==
  IF i <= Len(text) /\ IsWs(text[i]) THEN SkipWs(text, i + 1) ELSE i

At(text, i, tok) == i <= Len(text) /\ text[i] = tok

RECURSIVE ParseValue(_, _)
RECURSIVE ParseElems(_, _, _)
RECURSIVE ParseMembers(_, _, _)

\* the elements after "[" or ",": acc holds those parsed so far
ParseElems(text, i, acc) ==
  LET r == ParseValue(text, SkipWs(text, i)) IN
  IF ~r.ok THEN ParseFail
  ELSE LET j == SkipWs(text, r.next)
           acc2 == Append(acc, r.v) IN
       IF At(text, j, Comma) THEN ParseElems(text, j + 1, acc2)
       ELSE IF At(text, j, RBracket) THEN ParseOk(JArr(acc2), j + 1)
       ELSE ParseFail

\* the members after "{" or ",": a repeated key keeps its place and takes
\* the later value
ParseMembers(text, i, acc) ==
  LET ki == SkipWs(text, i) IN
  IF ~(ki <= Len(text) /\ text[ki].k = "s" /\ text[ki].v.t = "str")
  THEN ParseFail
  ELSE LET ci == SkipWs(text, ki + 1) IN
       IF ~At(text, ci, Colon) THEN ParseFail
       ELSE LET r == ParseValue(text, SkipWs(text, ci + 1)) IN
            IF ~r.ok THEN ParseFail
            ELSE LET j == SkipWs(text, r.next)
                     acc2 == SetKey(acc, text[ki].v.s, r.v) IN
                 IF At(text, j, Comma) THEN ParseMembers(text, j + 1, acc2)
                 ELSE IF At(text, j, RBrace) THEN ParseOk(JObj(acc2), j + 1)
                 ELSE ParseFail

ParseValue(text, i) ==
  IF i > Len(text) THEN ParseFail
  ELSE IF text[i].k = "s" THEN ParseOk(text[i].v, i + 1)
  ELSE IF text[i] = LBracket THEN
         (IF At(text, SkipWs(text, i + 1), RBracket)
          THEN ParseOk(JArr(<<>>), SkipWs(text, i + 1) + 1)
          ELSE ParseElems(text, i + 1, <<>>))
  ELSE IF text[i] = LBrace THEN
         (IF At(text, SkipWs(text, i + 1), RBrace)
          THEN ParseOk(JObj(<<>>), SkipWs(text, i + 1) + 1)
          ELSE ParseMembers(text, i + 1, <<>>))
  ELSE ParseFail

\* JSON.parse(data): [ok |-> TRUE, v |-> value], or ok = FALSE when it throws
JSONparse(text) ==
  LET r == ParseValue(text, SkipWs(text, 1)) IN
  IF r.ok /\ SkipWs(text, r.next) = Len(text) + 1
  THEN [ok |-> TRUE, v |-> r.v]
  ELSE [ok |-> FALSE, v |-> Undefined]

(***************************************************************************)
(* The file system and the promises.                                       *)
(*                                                                         *)
(* A file is [st |-> "ok", data |-> text] or [st |-> "err", code |-> c]:   *)
(* what fs.readFile hands its callback as (err, data).  A promise over one *)
(* file operation is [io, st, v, err]: io tells whether the operation was  *)
(* issued and whether its callback has run, st is the promise's state.     *)
(* A callback that throws leaves io = "done" with st = "pending": nothing  *)
(* settles the promise any more.                                           *)
(***************************************************************************)
File(text) == [st |-> "ok", data |-> text]
FsError(code) == [st |-> "err", code |-> code]
Missing == FsError("ENOENT")
Unreadable == FsError("EIO")
Denied == FsError("EACCES")

Idle == [io |-> "none", st |-> "pending", v |-> Undefined, err |-> "none"]
InFlight == [io |-> "inflight", st |-> "pending", v |-> Undefined, err |-> "none"]
Resolved(v) == [io |-> "done", st |-> "resolved", v |-> v, err |-> "none"]
Rejected(code) == [io |-> "done", st |-> "rejected", v |-> Undefined, err |-> code]
Threw == [io |-> "done", st |-> "pending", v |-> Undefined, err |-> "none"]

\* the callback of loadPackageJson: reject(err), or resolve(JSON.parse(data));
\* JSON.parse throws inside the callback, outside the promise executor
loadPackageJson(res) ==
  IF res.st = "err" THEN Rejected(res.code)
  ELSE LET p == JSONparse(res.data) IN
       IF p.ok THEN Resolved(p.v) ELSE Threw

(***************************************************************************)
(* writePackageJson and loadPackageJson on one project's package.json.     *)
(***************************************************************************)
SeqsUpTo(S, n) == UNION {[1..m -> S] : m \in 0..n}

JsonScalars == {JStr("a")}
JsonKeys == {"name"}

RECURSIVE JsonValues(_)
JsonValues(d) ==
  IF d = 0 THEN JsonScalars
  ELSE LET S == JsonValues(d - 1) IN
       S \cup {JArr(a) : a \in SeqsUpTo(S, MaxLen)}
         \cup {JObj(<<>>)}
         \cup {JObj(<< <<key, v>> >>) : key \in JsonKeys, v \in S}

\* a descriptor as guppy writes it: several members, nested sections
SampleDescriptor ==
  JObj(<< <<"name", JStr("a")>>,
          <<"skpm", JObj(<< <<"manifest", JStr("manifest.json")>> >>)>>,
          <<"dependencies", JObj(<< <<"x", JStr("^1")>>, <<"y", JStr("^1")>> >>)>>,
          <<"keywords", JArr(<<JStr("a"), JStr("b")>>)>>,
          <<"private", JNull>> >>)

WriteValues == JsonValues(MaxDepth) \cup {JNum(1), JNull, SampleDescriptor}

\* a file cut short, as an interrupted overwrite leaves it
Truncated == File(<<LBrace>>)

\* fs.writeFile(path, text): the file's content once the write succeeded
\* (WriteFileAppends: what fs.appendFile would leave instead)
WriteFileAppends(old, text) ==
  IF old.st = "ok" THEN File(old.data \o text) ELSE File(text)

writeFile(old, text) == File(text)

\* the parts of the state an operation does not use
WriteIdle ==
  /\ wr = [p |-> Idle, json |-> Undefined, text |-> <<>>]
  /\ rd = Idle
  /\ rdAfter = FALSE
  /\ dirty = FALSE

ProjectsIdle ==
  /\ projectPaths = <<>>
  /\ proj = <<>>
  /\ results = <<>>
  /\ order = <<>>
  /\ lps = [st |-> "idle", v |-> Undefined, err |-> "none"]

DepsIdle ==
  /\ installed = <<>>
  /\ dpkg = Idle
  /\ queue = <<>>
  /\ dq = <<>>
  /\ dres = <<>>
  /\ lpd = [st |-> "idle", v |-> Undefined, err |-> "none"]
  /\ ladp = [st |-> "idle", v |-> Undefined, err |-> "none"]
  /\ single = [name |-> "", location |-> Undefined, p |-> Idle]
  /\ seen = Idle

UIIdle ==
  /\ commands = <<>>
  /\ pane = [selectedCommandId |-> JNull, addingNewCommand |-> FALSE]
  /\ modal = [name |-> "", activeField |-> "name", shortcut |-> JNull]
  /\ lastEv = [type |-> "none"]

InitWrite ==
  /\ disk \in {Missing, Truncated, File(JSONstringify(SampleDescriptor))}
  /\ WriteIdle
  /\ ProjectsIdle
  /\ DepsIdle
  /\ UIIdle

\* writePackageJson(projectPath, json): stringify, then issue fs.writeFile
WritePackageJsonCall ==
  /\ wr.p.io = "none"
  /\ \E json \in WriteValues :
       wr' = [p |-> InFlight, json |-> json, text |-> JSONstringify(json)]
  /\ UNCHANGED <<disk, rd, rdAfter, dirty, varsProjects, varsDeps, varsUI>>

\* the callback of fs.writeFile: reject(err) or resolve(json)
WriteFileDone ==
  /\ wr.p.io = "inflight"
  /\ \/ /\ disk' = writeFile(disk, wr.text)
        /\ wr' = [wr EXCEPT !.p = Resolved(wr.json)]
     \/ /\ disk' \in {disk, Truncated}
        /\ wr' = [wr EXCEPT !.p = Rejected("EIO")]
  /\ UNCHANGED <<rd, rdAfter, dirty, varsProjects, varsDeps, varsUI>>

\* loadPackageJson(projectPath): issue fs.readFile
LoadPackageJsonCall ==
  /\ rd.io = "none"
  /\ rd' = InFlight
  /\ rdAfter' = (wr.p.st = "resolved" /\ ~dirty)
  /\ UNCHANGED <<disk, wr, dirty, varsProjects, varsDeps, varsUI>>

\* the callback of fs.readFile in loadPackageJson
ReadFileDone ==
  /\ rd.io = "inflight"
  /\ rd' = loadPackageJson(disk)
  /\ UNCHANGED <<disk, wr, rdAfter, dirty, varsProjects, varsDeps, varsUI>>

\* something else (an editor, npm) rewrites or deletes the file after the
\* write; what it did before the write is the initial content
OtherWrite ==
  /\ wr.p.st = "resolved"
  /\ disk' \in {Missing, Truncated, File(JSONstringify(SampleDescriptor))}
  /\ disk' # disk
  /\ dirty' = TRUE
  /\ UNCHANGED <<wr, rd, rdAfter, varsProjects, varsDeps, varsUI>>

NextWrite ==
  \/ WritePackageJsonCall
  \/ WriteFileDone
  \/ LoadPackageJsonCall
  \/ ReadFileDone
  \/ OtherWrite

SpecWrite == InitWrite /\ [][NextWrite]_vars

\* C9: a loadPackageJson called after writePackageJson(path, X) resolved, with
\* no other write to the file in between, resolves with a value equal to X.
C9_RoundTrip ==
  (rd.io = "done" /\ rdAfter /\ ~dirty)
    => (rd.st = "resolved" /\ rd.v = wr.json)

\* the round trip has happened for a nested value, over a file that held
\* something else before
C9_Witness ==
  /\ rd.io = "done" /\ rdAfter /\ ~dirty
  /\ rd.st = "resolved"
  /\ wr.json.t = "obj" /\ wr.json.o # <<>> /\ wr.json.o[1][2].t = "arr"
  /\ wr.json.o[1][2].a # <<>>

(***************************************************************************)
(* loadProject and loadProjects.                                           *)
(***************************************************************************)
\* a promise that is not tied to one file operation: [st, v, err]
Pending == [st |-> "pending", v |-> Undefined, err |-> "none"]
Fulfilled(v) == [st |-> "resolved", v |-> v, err |-> "none"]
Failed(err) == [st |-> "rejected", v |-> Undefined, err |-> err]
NotCalled == [st |-> "idle", v |-> Undefined, err |-> "none"]

\* a project's package.json: with or without the skpm section that points
\* to the manifest
Descriptor(name, withSkpm) ==
  JObj(<< <<"name", JStr(name)>>, <<"version", JStr("1.0.0")>> >>
       \o (IF withSkpm
           THEN << <<"skpm", JObj(<< <<"manifest", JStr("manifest.json")>> >>)>> >>
           ELSE <<>>))

\* a package.json that itself declares a field named as one of the keys the
\* merge writes
DescriptorWithReserved(name) ==
  JObj(Descriptor(name, FALSE).o \o << <<"__skpm_icon", JStr("icon.png")>> >>)

\* two descriptors: two paths may read the same one (the same name twice) or
\* different ones
ProjectDescriptors == {Descriptor("A", TRUE), DescriptorWithReserved("B")}

SampleManifest == JObj(<< <<"commands", JArr(<<>>)>> >>)

\* what the file system may hand each read
PackageJsonFiles ==
  {Missing, Unreadable, Truncated}
    \cup {File(JSONstringify(d)) : d \in ProjectDescriptors}
ManifestFiles == {Missing, Truncated, File(JSONstringify(SampleManifest))}
IconFiles == {Missing, [st |-> "ok", data |-> JStr("iVBORw0KGgo=")]}
StatResults == {Missing, [st |-> "ok", data |-> [birthtimeMs |-> JNum(1536000000)]]}

\* loadManifestJson up to the fs.readFile call: packageJson.skpm.manifest is
\* evaluated inside the promise executor, where a TypeError rejects
loadManifestJsonStart(packageJson) ==
  IF Get(Get(packageJson, "skpm"), "manifest").t = "str"
  THEN InFlight
  ELSE [io |-> "none", st |-> "rejected", v |-> Undefined, err |-> "TypeError"]

\* the callback of loadManifestJson: as in loadPackageJson
loadManifestJson(res) ==
  IF res.st = "err" THEN Rejected(res.code)
  ELSE LET p == JSONparse(res.data) IN
       IF p.ok THEN Resolved(p.v) ELSE Threw

\* the callbacks of loadIcon and loadProjectFSStat
loadIcon(res) ==
  IF res.st = "err" THEN Rejected(res.code) ELSE Resolved(res.data)

loadProjectFSStat(res) ==
  IF res.st = "err" THEN Rejected(res.code) ELSE Resolved(res.data)

\* p.catch(console.error): a rejection becomes a fulfilment with undefined
\* (CatchPropagates: the promise without the catch)
CatchPropagates(p) == p

CatchConsoleError(p) ==
  IF p.st = "rejected" THEN [p EXCEPT !.st = "resolved", !.v = Undefined] ELSE p

\* the state of one loadProject(projectPath) before and right after the call
\* (loadProjectEager: the icon and stat reads issued along with package.json)
NotStarted ==
  [pkg |-> Idle, manifest |-> Idle, icon |-> Idle, stat |-> Idle, lp |-> Pending]

loadProjectEager ==
  [pkg |-> InFlight, manifest |-> Idle, icon |-> InFlight, stat |-> InFlight,
   lp |-> Pending]

loadProjectStart ==
  [pkg |-> InFlight, manifest |-> Idle, icon |-> Idle, stat |-> Idle, lp |-> Pending]

\* .then(json => Promise.all([...])): runs when loadPackageJson has settled
loadProjectThen(l, p) ==
  IF p.st = "resolved"
  THEN [l EXCEPT !.pkg = p,
                 !.manifest = CatchConsoleError(loadManifestJsonStart(p.v)),
                 !.icon = InFlight,
                 !.stat = InFlight]
  ELSE IF p.st = "rejected"
  THEN [l EXCEPT !.pkg = p, !.lp = Failed(p.err)]
  ELSE [l EXCEPT !.pkg = p]

\* (stat || {}).birthtimeMs
BirthtimeMs(stat) == IF stat = Undefined THEN Undefined ELSE stat.birthtimeMs

\* .then(([manifest, icon, stat]) => { json.__skpm_... = ...; return json })
Merge(json, manifest, icon, stat) ==
  JObj(SetKey(SetKey(SetKey(json.o, "__skpm_manifest", manifest),
                     "__skpm_icon", icon),
              "__skpm_createdAt", BirthtimeMs(stat)))

\* Promise.all over the three reads: rejects with the first rejection, and
\* is fulfilled once all three are; the record keeps the identity of the path
\* it was loaded from
AuxReads == {"manifest", "icon", "stat"}

loadProjectMerge(path, l) ==
  IF l.lp.st # "pending" \/ l.pkg.st # "resolved" THEN l
  ELSE IF \E f \in AuxReads : l[f].st = "rejected"
  THEN [l EXCEPT !.lp = Failed(l[CHOOSE f \in AuxReads : l[f].st = "rejected"].err)]
  ELSE IF \A f \in AuxReads : l[f].st = "resolved"
  THEN [l EXCEPT !.lp =
          Fulfilled([t |-> "project", path |-> path,
                     json |-> Merge(l.pkg.v, l.manifest.v, l.icon.v, l.stat.v)])]
  ELSE l

\* String(project.name) as a property key
ToPropertyKey(v) == IF v.t = "str" THEN v.s ELSE v.t

\* the iteratee of asyncMap: .then(json => callback(null, json))
\*                           .catch(err => callback(null, null))
IterateeResult(lp) == IF lp.st = "resolved" THEN lp.v ELSE JNull

\* asyncMap stores an iteratee's result in the slot of its item
\* (asyncMapStoreInCompletionOrder: in the next free slot instead)
asyncMapStoreInCompletionOrder(res, ord, i, v) ==
  [res EXCEPT ![Len(ord) + 1] = v]

asyncMapStore(res, ord, i, v) == [res EXCEPT ![i] = v]

\* asyncMap calls its final callback once every iteratee has called back
\* (asyncMapCompleteOnFirst: once the first one has)
asyncMapCompleteOnFirst(res) == \E j \in 1..Len(res) : res[j] # Undefined

asyncMapComplete(res) == \A j \in 1..Len(res) : res[j] # Undefined

\* results.filter(project => !!project).reduce(... [project.name]: project ...)
RECURSIVE ProjectsReduce(_, _, _)
ProjectsReduce(res, i, acc) ==
  IF i > Len(res) THEN acc
  ELSE ProjectsReduce(res, i + 1,
         IF res[i] \in {JNull, Undefined} THEN acc
         ELSE SetKey(acc, ToPropertyKey(Get(res[i].json, "name")), res[i]))

\* the final callback of asyncMap in loadProjects
loadProjectsDone(err, res) ==
  IF res = Undefined THEN Failed(err)
  ELSE Fulfilled(ProjectsReduce(res.a, 1, <<>>))

InitProjects ==
  /\ projectPaths \in {[i \in 1..k |-> i] : k \in 0..MaxPaths}
  /\ proj = [i \in 1..Len(projectPaths) |-> NotStarted]
  /\ results = [i \in 1..Len(projectPaths) |-> Undefined]
  /\ order = <<>>
  /\ lps = NotCalled
  /\ disk = Missing
  /\ WriteIdle
  /\ DepsIdle
  /\ UIIdle

\* loadProjects(projectPaths): asyncMap calls loadProject for every path,
\* and calls back at once for an empty array
LoadProjectsCall ==
  /\ lps.st = "idle"
  /\ proj' = [i \in 1..Len(projectPaths) |-> loadProjectStart]
  /\ lps' = IF projectPaths = <<>> THEN loadProjectsDone(JNull, JArr(<<>>)) ELSE Pending
  /\ UNCHANGED <<projectPaths, results, order, varsWrite, varsDeps, varsUI>>

\* the end of an event-loop turn for path i, whose loadProject is now l:
\* when it has settled the iteratee calls back, and asyncMap's final callback
\* runs after the last one
Settle(i, l) ==
  LET settled == proj[i].lp.st = "pending" /\ l.lp.st # "pending"
      res2 == IF settled
              THEN asyncMapStore(results, order, i, IterateeResult(l.lp))
              ELSE results
      ord2 == IF settled THEN Append(order, i) ELSE order
  IN /\ proj' = [proj EXCEPT ![i] = l]
     /\ results' = res2
     /\ order' = ord2
     /\ lps' = IF settled /\ lps.st = "pending" /\ asyncMapComplete(res2)
               THEN loadProjectsDone(JNull, JArr(res2))
               ELSE lps
     /\ UNCHANGED <<projectPaths, varsWrite, varsDeps, varsUI>>

\* the callback of fs.readFile for <path>/package.json
PackageJsonRead(i) ==
  /\ proj[i].pkg.io = "inflight"
  /\ \E p \in {loadPackageJson(res) : res \in PackageJsonFiles} :
       Settle(i, loadProjectMerge(i, loadProjectThen(proj[i], p)))

\* the callback of fs.readFile for the manifest
ManifestRead(i) ==
  /\ proj[i].manifest.io = "inflight"
  /\ \E p \in {loadManifestJson(res) : res \in ManifestFiles} :
       Settle(i, loadProjectMerge(i,
         [proj[i] EXCEPT !.manifest = CatchConsoleError(p)]))

\* the callback of fs.readFile for assets/icon.png
IconRead(i) ==
  /\ proj[i].icon.io = "inflight"
  /\ \E res \in IconFiles :
       Settle(i, loadProjectMerge(i,
         [proj[i] EXCEPT !.icon = CatchConsoleError(loadIcon(res))]))

\* the callback of fs.stat
StatRead(i) ==
  /\ proj[i].stat.io = "inflight"
  /\ \E res \in StatResults :
       Settle(i, loadProjectMerge(i,
         [proj[i] EXCEPT !.stat = CatchConsoleError(loadProjectFSStat(res))]))

Next ==
  \/ LoadProjectsCall
  \/ \E i \in 1..Len(projectPaths) : PackageJsonRead(i)
  \/ \E i \in 1..Len(projectPaths) : ManifestRead(i)
  \/ \E i \in 1..Len(projectPaths) : IconRead(i)
  \/ \E i \in 1..Len(projectPaths) : StatRead(i)

Spec == InitProjects /\ [][Next]_vars

(***************************************************************************)
(* loadProjectDependency, loadProjectDependencies and                      *)
(* loadAllProjectDependencies.                                             *)
(***************************************************************************)
DependencyNames == {"x", "y"}

\* the sections of a package.json: absent, or an object whose keys are some
\* of the names in some order
Sections ==
  {Undefined}
    \cup {JObj([k \in 1..Len(names) |-> <<names[k], JStr("^1.0.0")>>]) :
            names \in {<<>>, <<"x">>, <<"y">>, <<"x", "y">>, <<"y", "x">>}}

DepsDescriptor(deps, devDeps) ==
  JObj(<< <<"name", JStr("A")>> >>
       \o (IF deps = Undefined THEN <<>> ELSE << <<"dependencies", deps>> >>)
       \o (IF devDeps = Undefined THEN <<>>
           ELSE << <<"devDependencies", devDeps>> >>))

DepsDescriptors ==
  {DepsDescriptor(deps, devDeps) : deps \in Sections, devDeps \in Sections}

\* node_modules/<dir>/package.json; its name field need not be <dir>
InstalledDescriptor(name) ==
  JObj(<< <<"name", JStr(name)>>, <<"version", JStr("1.2.0")>>,
          <<"license", JStr("MIT")>>, <<"main", JStr("index.js")>> >>)

InstalledFiles ==
  {Missing, Unreadable, Denied, Truncated}
    \cup {File(JSONstringify(InstalledDescriptor(name))) : name \in DependencyNames}

\* pick(obj, keys): the members of obj under the given keys
RECURSIVE PickFrom(_, _, _)
PickFrom(v, keys, k) ==
  IF k > Len(keys) THEN <<>>
  ELSE (IF HasKey(v, keys[k]) THEN << <<keys[k], Get(v, keys[k])>> >> ELSE <<>>)
       \o PickFrom(v, keys, k + 1)

pick(v, keys) == JObj(PickFrom(v, keys, 1))

\* (DependencyFieldsWithMain: a list that lets one more field through)
DependencyFieldsWithMain ==
  <<"name", "description", "keywords", "version", "homepage", "license",
    "repository", "main">>

DependencyFields ==
  <<"name", "description", "keywords", "version", "homepage", "license",
    "repository">>

\* dependencyLocation: DependencyLocation = 'dependencies', the argument
\* being a JavaScript value: a string, or undefined when left out
DefaultLocation(location) ==
  IF location = Undefined THEN "dependencies" ELSE location.s

\* the callback of fs.readFile in loadProjectDependency
loadProjectDependency(res, location) ==
  IF res.st = "err"
  THEN (IF res.code = "ENOENT" THEN Resolved(JNull) ELSE Rejected(res.code))
  ELSE LET p == JSONparse(res.data) IN
       IF ~p.ok THEN Threw
       ELSE Resolved(JObj(SetKey(SetKey(pick(p.v, DependencyFields).o,
                                        "status", JStr("idle")),
                                 "location", JStr(location))))

\* Object.keys(section || {})
SectionKeys(section) == IF section.t = "obj" THEN ObjectKeys(section) ELSE <<>>

Includes(names, name) == \E k \in 1..Len(names) : names[k] = name

\* [...deps, ...devDeps].map(name => ({name, location}))
\* (BuildQueueDependenciesFirst: the test made on deps instead of devDeps)
BuildQueueDependenciesFirst(packageJson) ==
  LET deps == SectionKeys(Get(packageJson, "dependencies"))
      devDeps == SectionKeys(Get(packageJson, "devDependencies"))
      all == deps \o devDeps
  IN [k \in 1..Len(all) |->
        [name |-> all[k],
         location |-> IF Includes(deps, all[k]) THEN "dependencies"
                      ELSE "devDependencies"]]

\* (BuildQueueBySection: each entry given the section it was listed in)
BuildQueueBySection(packageJson) ==
  LET deps == SectionKeys(Get(packageJson, "dependencies"))
      devDeps == SectionKeys(Get(packageJson, "devDependencies"))
      all == deps \o devDeps
  IN [k \in 1..Len(all) |->
        [name |-> all[k],
         location |-> IF k > Len(deps) THEN "devDependencies"
                      ELSE "dependencies"]]

BuildQueue(packageJson) ==
  LET deps == SectionKeys(Get(packageJson, "dependencies"))
      devDeps == SectionKeys(Get(packageJson, "devDependencies"))
      all == deps \o devDeps
  IN [k \in 1..Len(all) |->
        [name |-> all[k],
         location |-> IF Includes(devDeps, all[k]) THEN "devDependencies"
                      ELSE "dependencies"]]

\* results.filter(result => result)
\* (FilterLoadedKeepsAll: the array unfiltered)
FilterLoadedKeepsAll(res, k) == res

RECURSIVE FilterLoaded(_, _)
FilterLoaded(res, k) ==
  IF k > Len(res) THEN <<>>
  ELSE (IF res[k] = JNull THEN <<>> ELSE <<res[k]>>) \o FilterLoaded(res, k + 1)

\* the final callback of asyncMap in loadProjectDependencies
loadProjectDependenciesDone(err, res) ==
  IF err # JNull THEN Failed(err.s) ELSE Fulfilled(FilterLoaded(res, 1))

\* the promise of loadProjectDependencies after the iteratee of one entry has
\* called back with p, res being the results so far: asyncMap calls its final
\* callback on the first error, or after the last result, and only once
\* (asyncMapWaitsForAll: nothing reported before the last callback)
asyncMapWaitsForAll(cur, p, res, left) ==
  IF cur.st # "pending" \/ left # 0 THEN cur
  ELSE IF p.st = "rejected" THEN loadProjectDependenciesDone(JStr(p.err), res)
  ELSE IF \A j \in 1..Len(res) : res[j] # Undefined
  THEN loadProjectDependenciesDone(JNull, res)
  ELSE cur

asyncMapCallback(cur, p, res, left) ==
  IF cur.st # "pending" THEN cur
  ELSE IF p.st = "rejected" THEN loadProjectDependenciesDone(JStr(p.err), res)
  ELSE IF \A j \in 1..Len(res) : res[j] # Undefined
  THEN loadProjectDependenciesDone(JNull, res)
  ELSE cur

\* dependenciesFromPackageJson.reduce(... [dependency.name]: dependency ...)
RECURSIVE DependenciesByName(_, _, _)
DependenciesByName(list, k, acc) ==
  IF k > Len(list) THEN acc
  ELSE DependenciesByName(list, k + 1,
         SetKey(acc, ToPropertyKey(Get(list[k], "name")), list[k]))

\* loadProjectDependencies(...).then(onFulfilled), inside new Promise: there
\* is no rejection handler and reject is never called
loadAllThen(p) ==
  IF p.st = "resolved" THEN Fulfilled(DependenciesByName(p.v, 1, <<>>))
  ELSE Pending

\* "Get a fresh copy of the dependencies from the project's package.json":
\* the descriptor is what the read of this call gives
\* (CachedPackageJson: what an earlier call read, when there is one)
CachedPackageJson(file, cached) ==
  IF cached.st = "resolved" THEN cached ELSE loadPackageJson(file)

FreshPackageJson(file, cached) == loadPackageJson(file)

InitDeps ==
  /\ disk \in {Missing, Unreadable, Truncated}
                \cup {File(JSONstringify(d)) : d \in DepsDescriptors}
  /\ installed \in [DependencyNames -> InstalledFiles]
  /\ dpkg = Idle
  /\ queue = <<>>
  /\ dq = <<>>
  /\ dres = <<>>
  /\ lpd = NotCalled
  /\ ladp = NotCalled
  /\ single = [name |-> "", location |-> Undefined, p |-> Idle]
  /\ seen = Idle
  /\ WriteIdle
  /\ ProjectsIdle
  /\ UIIdle

\* loadAllProjectDependencies(projectPath): issue the read of package.json.
\* A behaviour follows one call, this one or a direct call of
\* loadProjectDependency: the calls share nothing but the files they read.
LoadAllProjectDependenciesCall ==
  /\ ladp.st = "idle"
  /\ single.p.io = "none"
  /\ dpkg' = InFlight
  /\ ladp' = Pending
  /\ UNCHANGED <<installed, queue, dq, dres, lpd, single, seen, varsWrite, varsProjects, varsUI>>

\* the callback of that read: the .then builds the queue and
\* loadProjectDependencies hands every entry to loadProjectDependency;
\* asyncMap calls back at once for an empty queue
DepsPackageJsonRead ==
  /\ dpkg.io = "inflight"
  /\ LET p == FreshPackageJson(disk, seen) IN
     /\ dpkg' = p
     /\ IF p.st = "resolved"
        THEN LET q == BuildQueue(p.v)
                 done == IF q = <<>>
                         THEN loadProjectDependenciesDone(JNull, <<>>)
                         ELSE Pending
             IN /\ queue' = q
                /\ dq' = [k \in 1..Len(q) |-> InFlight]
                /\ dres' = [k \in 1..Len(q) |-> Undefined]
                /\ lpd' = done
                /\ ladp' = loadAllThen(done)
        ELSE /\ ladp' = IF p.st = "rejected" THEN Failed(p.err) ELSE ladp
             /\ UNCHANGED <<queue, dq, dres, lpd, varsUI>>
  /\ UNCHANGED <<installed, single, seen, varsWrite, varsProjects, varsUI>>

\* the callback of fs.readFile for node_modules/<name>/package.json, entry k
\* of the queue: the iteratee calls back with the dependency or with the
\* error; asyncMap calls its final callback on the first error, or after the
\* last result, and only once
DependencyRead(k) ==
  /\ dq[k].io = "inflight"
  /\ LET p == loadProjectDependency(installed[queue[k].name], queue[k].location)
         called == SelectSeq(dres, LAMBDA v : v # Undefined)
         res2 == IF p.st = "resolved" /\ lpd.st = "pending"
                 THEN asyncMapStore(dres, called, k, p.v) ELSE dres
         left == Cardinality({j \in 1..Len(dq) : j # k /\ dq[j].io = "inflight"})
         done == asyncMapCallback(lpd, p, res2, left)
     IN /\ dq' = [dq EXCEPT ![k] = p]
        /\ dres' = res2
        /\ lpd' = done
        /\ ladp' = IF lpd.st = "pending" THEN loadAllThen(done) ELSE ladp
  /\ UNCHANGED <<installed, dpkg, queue, single, seen, varsWrite, varsProjects, varsUI>>

\* loadProjectDependency(projectPath, name) or (projectPath, name, location)
\* called on its own: issue the read
LoadProjectDependencyCall ==
  /\ single.p.io = "none"
  /\ ladp.st = "idle"
  /\ \E name \in DependencyNames, location \in {Undefined, JStr("devDependencies")} :
       single' = [name |-> name, location |-> location, p |-> InFlight]
  /\ UNCHANGED <<installed, dpkg, queue, dq, dres, lpd, ladp, seen,
                 varsWrite, varsProjects, varsUI>>

\* the callback of that read
SingleDependencyRead ==
  /\ single.p.io = "inflight"
  /\ single' = [single EXCEPT !.p =
       loadProjectDependency(installed[single.name],
                             DefaultLocation(single.location))]
  /\ UNCHANGED <<installed, dpkg, queue, dq, dres, lpd, ladp, seen,
                 varsWrite, varsProjects, varsUI>>

(***************************************************************************)
(* loadAllProjectDependencies called again and again on a project whose    *)
(* package.json is rewritten by writePackageJson in between.               *)
(***************************************************************************)
FreshDescriptors ==
  {DepsDescriptor(JObj(<< <<"x", JStr("^1.0.0")>> >>), Undefined),
   DepsDescriptor(JObj(<< <<"y", JStr("^1.0.0")>> >>),
                  JObj(<< <<"x", JStr("^1.0.0")>> >>)),
   DepsDescriptor(Undefined, JObj(<< <<"y", JStr("^1.0.0")>> >>))}

InitFresh ==
  /\ disk \in {File(JSONstringify(d)) : d \in FreshDescriptors}
  /\ installed \in
       {[name \in DependencyNames |->
          IF name \in S THEN File(JSONstringify(InstalledDescriptor(name)))
          ELSE Missing] : S \in {{"x", "y"}, {"x"}}}
  /\ dpkg = Idle
  /\ queue = <<>>
  /\ dq = <<>>
  /\ dres = <<>>
  /\ lpd = NotCalled
  /\ ladp = NotCalled
  /\ single = [name |-> "", location |-> Undefined, p |-> Idle]
  /\ seen = Idle
  /\ WriteIdle
  /\ ProjectsIdle
  /\ UIIdle

\* a call of loadAllProjectDependencies, the first or one made when the
\* reads of the call before it are over: it starts from nothing but the path
StartLoadAllProjectDependencies ==
  /\ \/ ladp.st = "idle"
     \/ dpkg.io = "done" /\ \A k \in 1..Len(dq) : dq[k].io = "done"
  /\ seen' = IF dpkg.st = "resolved" THEN dpkg ELSE seen
  /\ dpkg' = InFlight
  /\ queue' = <<>>
  /\ dq' = <<>>
  /\ dres' = <<>>
  /\ lpd' = NotCalled
  /\ ladp' = Pending
  /\ rdAfter' = (wr.p.st = "resolved")
  /\ UNCHANGED <<installed, single, disk, wr, rd, dirty, varsProjects, varsUI>>

\* writePackageJson(projectPath, json) with changed sections
WriteDependenciesCall ==
  /\ wr.p.io = "none"
  /\ \E json \in FreshDescriptors :
       /\ File(JSONstringify(json)) # disk
       /\ wr' = [p |-> InFlight, json |-> json, text |-> JSONstringify(json)]
  /\ UNCHANGED <<disk, rd, rdAfter, dirty, varsProjects, varsDeps, varsUI>>

NextFresh ==
  \/ StartLoadAllProjectDependencies
  \/ DepsPackageJsonRead
  \/ \E k \in 1..Len(queue) : DependencyRead(k)
  \/ WriteDependenciesCall
  \/ WriteFileDone

SpecFresh == InitFresh /\ [][NextFresh]_vars

NextDeps ==
  \/ LoadAllProjectDependenciesCall
  \/ DepsPackageJsonRead
  \/ \E k \in 1..Len(queue) : DependencyRead(k)
  \/ LoadProjectDependencyCall
  \/ SingleDependencyRead

SpecDeps == InitDeps /\ [][NextDeps]_vars

(***************************************************************************)
(* CommandsPane (components/CommandsPane): the selection of a command and  *)
(* the flag of the "add command" modal.  One action is one update of the   *)
(* component: a setState or new props, followed by                         *)
(* getDerivedStateFromProps, which React runs before every render.         *)
(***************************************************************************)
CommandIds == {"build", "eject", "test"}

\* a command of the project; processId is set while it runs
Command(id, running) == [identifier |-> JStr(id), running |-> running]

\* the arrays project.commands can be: commands of distinct identifiers
CommandArrays ==
  {a \in SeqsUpTo({Command(id, r) : id \in CommandIds, r \in BOOLEAN}, MaxCommands) :
     \A i, j \in 1..Len(a) : a[i].identifier = a[j].identifier => i = j}

\* a partial state, as setState takes it and getDerivedStateFromProps
\* returns it: a function on some of the keys; null is the one on none
NoUpdate == <<>>
ApplyUpdate(state, update) ==
  [k \in DOMAIN state |-> IF k \in DOMAIN update THEN update[k] ELSE state[k]]

\* (getDerivedStateFromPropsKeeps: the selection never reset)
getDerivedStateFromPropsKeeps(cmds, state) == NoUpdate

getDerivedStateFromProps(cmds, state) ==
  LET selectedCommandExists ==
        \E i \in 1..Len(cmds) : cmds[i].identifier = state.selectedCommandId
  IN IF ~selectedCommandExists
     THEN [k \in {"selectedCommandId"} |-> JNull]
     ELSE NoUpdate

\* the state after this.setState(update) and the render it causes
SetState(update) ==
  LET merged == ApplyUpdate(pane, update) IN
  ApplyUpdate(merged, getDerivedStateFromProps(commands, merged))

SetStateEvent == [type |-> "setState", was |-> pane.selectedCommandId]

InitPane ==
  /\ commands \in CommandArrays
  /\ pane = [selectedCommandId |-> JNull, addingNewCommand |-> FALSE]
  /\ modal = [name |-> "", activeField |-> "name", shortcut |-> JNull]
  /\ lastEv = [type |-> "none", was |-> JNull]
  /\ disk = Missing
  /\ WriteIdle
  /\ ProjectsIdle
  /\ DepsIdle

openAddNewCommandModal ==
  /\ pane' = SetState([k \in {"addingNewCommand"} |-> TRUE])
  /\ lastEv' = SetStateEvent
  /\ UNCHANGED <<commands, modal, varsWrite, varsProjects, varsDeps>>

closeAddNewCommandModal ==
  /\ pane' = SetState([k \in {"addingNewCommand"} |-> FALSE])
  /\ lastEv' = SetStateEvent
  /\ UNCHANGED <<commands, modal, varsWrite, varsProjects, varsDeps>>

\* handleViewDetails(commandId): the row clicked may be one of a command that
\* the project has lost since
handleViewDetails ==
  /\ \E id \in CommandIds :
       pane' = SetState([k \in {"selectedCommandId"} |-> JStr(id)])
  /\ lastEv' = SetStateEvent
  /\ UNCHANGED <<commands, modal, varsWrite, varsProjects, varsDeps>>

handleDismissTaskDetails ==
  /\ pane' = SetState([k \in {"selectedCommandId"} |-> JNull])
  /\ lastEv' = SetStateEvent
  /\ UNCHANGED <<commands, modal, varsWrite, varsProjects, varsDeps>>

\* the store hands the component another project.commands: commands added,
\* removed, started or stopped
ProjectChanged ==
  /\ commands' \in CommandArrays
  /\ commands' # commands
  /\ pane' = ApplyUpdate(pane, getDerivedStateFromProps(commands', pane))
  /\ lastEv' = [type |-> "props", was |-> pane.selectedCommandId]
  /\ UNCHANGED <<modal, varsWrite, varsProjects, varsDeps>>

NextPane ==
  \/ openAddNewCommandModal
  \/ closeAddNewCommandModal
  \/ handleViewDetails
  \/ handleDismissTaskDetails
  \/ ProjectChanged

SpecPane == InitPane /\ [][NextPane]_vars

(***************************************************************************)
(* AddCommandModal (components/AddCommandModal): the name field and the    *)
(* shortcut recorder.  One action is one event handler.                    *)
(***************************************************************************)
ModifierKeys == {"Shift", "Control", "Alt", "Meta"}

\* the keys of the model with their key codes (ev.key, ev.which)
Keyboard ==
  {<<"Backspace", 8>>, <<"Tab", 9>>, <<"Shift", 16>>, <<"Control", 17>>,
   <<"Alt", 18>>, <<"Meta", 91>>, <<"a", 65>>, <<"1", 49>>}

\* the keydown events: a key with the modifiers held; the event of a
\* modifier key has that modifier held
KeyEvents ==
  {ev \in [key : {k[1] : k \in Keyboard}, which : {k[2] : k \in Keyboard},
           metaKey : BOOLEAN, ctrlKey : BOOLEAN, altKey : BOOLEAN,
           shiftKey : BOOLEAN] :
     /\ <<ev.key, ev.which>> \in Keyboard
     /\ ev.key = "Shift" => ev.shiftKey
     /\ ev.key = "Control" => ev.ctrlKey
     /\ ev.key = "Alt" => ev.altKey
     /\ ev.key = "Meta" => ev.metaKey}

\* String.fromCharCode(code), for the codes of the keys that reach it
fromCharCode(code) ==
  CASE code = 65 -> "A"
    [] code = 49 -> "1"

\* the string built from the modifiers and the key
\* (ShortcutCtrlFirst: ctrl+ put before cmd+)
ShortcutCtrlFirst(ev) ==
  (IF ev.ctrlKey THEN "ctrl+" ELSE "")
    \o (IF ev.metaKey THEN "cmd+" ELSE "")
    \o (IF ev.altKey THEN "option+" ELSE "")
    \o (IF ev.shiftKey THEN "shift+" ELSE "")
    \o fromCharCode(ev.which)

Shortcut(ev) ==
  (IF ev.metaKey THEN "cmd+" ELSE "")
    \o (IF ev.ctrlKey THEN "ctrl+" ELSE "")
    \o (IF ev.altKey THEN "option+" ELSE "")
    \o (IF ev.shiftKey THEN "shift+" ELSE "")
    \o fromCharCode(ev.which)

\* the state after handleKeyDown(ev)
KeyDown(state, ev) ==
  IF state.activeField = "shortcut"
  THEN IF ev.key = "Backspace" THEN [state EXCEPT !.shortcut = JNull]
       ELSE IF ev.key = "Tab" THEN state
       ELSE IF ev.key \in ModifierKeys THEN state
       ELSE [state EXCEPT !.shortcut = JStr(Shortcut(ev))]
  ELSE state

\* whether handleKeyDown(ev) called ev.preventDefault()
DefaultPrevented(state, ev) ==
  state.activeField = "shortcut" /\ ev.key \notin {"Backspace", "Tab"}

CommandNames == {"", "run"}

InitModal ==
  /\ modal = [name |-> "", activeField |-> "name", shortcut |-> JNull]
  /\ lastEv = [type |-> "none"]
  /\ commands = <<>>
  /\ pane = [selectedCommandId |-> JNull, addingNewCommand |-> TRUE]
  /\ disk = Missing
  /\ WriteIdle
  /\ ProjectsIdle
  /\ DepsIdle

handleKeyDown ==
  /\ \E ev \in KeyEvents :
       /\ modal' = KeyDown(modal, ev)
       /\ lastEv' = [type |-> "keydown", ev |-> ev,
                     prevented |-> DefaultPrevented(modal, ev)]
  /\ UNCHANGED <<commands, pane, varsWrite, varsProjects, varsDeps>>

\* changeMetadata('name')(ev): the name field takes the input's value
changeMetadata ==
  /\ \E value \in CommandNames : modal' = [modal EXCEPT !.name = value]
  /\ lastEv' = [type |-> "change"]
  /\ UNCHANGED <<commands, pane, varsWrite, varsProjects, varsDeps>>

\* setActive(name): one of the two inputs takes the focus
setActive ==
  /\ \E name \in {"name", "shortcut"} :
       modal' = [modal EXCEPT !.activeField = name]
  /\ lastEv' = [type |-> "focus"]
  /\ UNCHANGED <<commands, pane, varsWrite, varsProjects, varsDeps>>

NextModal ==
  \/ handleKeyDown
  \/ changeMetadata
  \/ setActive

SpecModal == InitModal /\ [][NextModal]_vars

(***************************************************************************)
(* Properties of loadProject and loadProjects.                             *)
(***************************************************************************)
Paths == 1..Len(projectPaths)
Keys(m) == {m[k][1] : k \in 1..Len(m)}
Lookup(m, key) == m[CHOOSE k \in 1..Len(m) : m[k][1] = key][2]

\* the paths whose package.json was there and parsed, and their names
DescriptorOk(i) == proj[i].pkg.st = "resolved"
NameOf(i) == ToPropertyKey(Get(proj[i].pkg.v, "name"))

\* every file read issued so far has called back
ReadsDone(i) == \A f \in {"pkg"} \cup AuxReads : proj[i][f].io # "inflight"
AuxFailed(i) == \A f \in AuxReads : proj[i][f].v = Undefined /\ proj[i][f].st = "resolved"

\* C1: the mapping loadProjects resolves with has as keys exactly the names of
\* the paths whose package.json was present and parseable, whatever became of
\* their manifest, icon and stat reads.
C1_KeySet ==
  lps.st = "resolved"
    => Keys(lps.v) = {NameOf(i) : i \in {j \in Paths : DescriptorOk(j)}}

\* resolved with a project all of whose auxiliary reads failed, next to a
\* path whose package.json could not be read
C1_Witness ==
  /\ lps.st = "resolved"
  /\ \E i, j \in Paths :
       /\ DescriptorOk(i) /\ AuxFailed(i) /\ proj[i].manifest.io = "done"
       /\ proj[j].pkg.st = "rejected"
       /\ Keys(lps.v) = {NameOf(i)}

\* C2: once every read loadProjects issued has called back the promise is
\* resolved, never rejected or pending, and its keys are the names of the
\* paths whose descriptor read did not fail.
C2_AlwaysResolves ==
  (lps.st # "idle" /\ \A i \in Paths : ReadsDone(i))
    => /\ lps.st = "resolved"
       /\ Keys(lps.v) = {NameOf(i) : i \in {j \in Paths : DescriptorOk(j)}}

\* C3: with the descriptor read, loadProject resolves whatever the three
\* auxiliary reads gave, each failure leaving only its own field undefined.
C3_SoftFailures ==
  \A i \in Paths :
    (DescriptorOk(i) /\ ReadsDone(i))
      => /\ proj[i].lp.st = "resolved"
         /\ Get(proj[i].lp.v.json, "__skpm_manifest") = proj[i].manifest.v
         /\ Get(proj[i].lp.v.json, "__skpm_icon") = proj[i].icon.v
         /\ Get(proj[i].lp.v.json, "__skpm_createdAt")
              = BirthtimeMs(proj[i].stat.v)

\* the position of path i in the completion order
Pos(i) == CHOOSE k \in 1..Len(order) : order[k] = i
SameName(key) == {i \in Paths : proj[i].lp.st = "resolved" /\ NameOf(i) = key}

\* C8 as stated: of the paths that loaded the same name, the record kept is
\* that of the load that completed last.
C8_LastCompletedWins ==
  lps.st = "resolved"
    => \A key \in Keys(lps.v) :
         \A i \in SameName(key) :
           Pos(i) <= Pos(Lookup(lps.v, key).path)

\* C8 as the code has it: of the paths that loaded the same name, the record
\* kept is that of the path that comes last in projectPaths, in whatever
\* order the loads completed.
C8_LastPathWins ==
  lps.st = "resolved"
    => \A key \in Keys(lps.v) :
         /\ Lookup(lps.v, key).path \in SameName(key)
         /\ \A i \in SameName(key) : i <= Lookup(lps.v, key).path

\* two paths of one name, the later path completing first
C8_Witness ==
  /\ lps.st = "resolved"
  /\ \E i, j \in Paths :
       /\ i < j /\ {i, j} \subseteq SameName(NameOf(i))
       /\ Pos(j) < Pos(i)
       /\ Lookup(lps.v, NameOf(i)).path = j

Entries == 1..Len(queue)
Declared == {queue[k].name : k \in Entries}
DeclaredIn(section) == SectionKeys(Get(dpkg.v, section))

\* the installed package.json of a declared name is there and readable
InstalledOk(name) == installed[name].st = "ok"
InstalledName(name) ==
  ToPropertyKey(Get(JSONparse(installed[name].data).v, "name"))

\* the section a declared name counts under
LocationOf(name) ==
  IF Includes(DeclaredIn("devDependencies"), name) THEN "devDependencies"
  ELSE "dependencies"

\* C4: a read of an installed package.json that fails with an error other
\* than ENOENT makes loadAllProjectDependencies reject with that error.
C4_ErrorPropagates ==
  \A k \in Entries :
    dq[k].st = "rejected"
      => /\ ladp.st = "rejected"
         /\ ladp.err \in {dq[j].err : j \in {e \in Entries : dq[e].st = "rejected"}}

\* C5 as stated: with no read failing otherwise than by ENOENT, the keys of
\* the mapping are the declared names whose installed package.json exists.
C5_KeysAreDeclaredNames ==
  (ladp.st = "resolved" /\ \A k \in Entries : dq[k].st # "rejected")
    => Keys(ladp.v) = {name \in Declared : InstalledOk(name)}

\* C5 as the code has it: the keys are the name fields of the installed
\* package.json files of the declared names that have one; a declared name
\* without one adds no key and no error.
C5_KeysAreInstalledNames ==
  (ladp.st = "resolved" /\ \A k \in Entries : dq[k].st # "rejected")
    => Keys(ladp.v)
         = {InstalledName(name) : name \in {d \in Declared : InstalledOk(d)}}

\* resolved with one declared name installed and another one absent
C5_Witness ==
  /\ ladp.st = "resolved"
  /\ \E a, b \in Declared :
       /\ InstalledOk(a) /\ installed[b] = Missing
       /\ Keys(ladp.v) = {InstalledName(a)}

\* C6: loadProjectDependency resolves with null exactly on ENOENT, rejects
\* with every other read error, and resolves with a Dependency when the read
\* succeeds.
C6_ReaderOutcomes ==
  \A k \in Entries :
    dq[k].io = "done"
      => LET file == installed[queue[k].name] IN
         /\ (dq[k].st = "resolved" /\ dq[k].v = JNull)
              <=> (file.st = "err" /\ file.code = "ENOENT")
         /\ (file.st = "err" /\ file.code # "ENOENT")
              => dq[k] = Rejected(file.code)
         /\ file.st = "ok" => (dq[k].st = "resolved" /\ dq[k].v # JNull)

\* C7 as stated: the entry under a declared name has the location of that
\* name: devDependencies when it is declared there (also when in both
\* sections), dependencies when it is declared only there.
C7_LocationOfKey ==
  ladp.st = "resolved"
    => \A key \in Keys(ladp.v) \cap Declared :
         Get(Lookup(ladp.v, key), "location") = JStr(LocationOf(key))

\* the queue entries whose installed package.json carries the name key
ReadAs(key) ==
  {k \in Entries : InstalledOk(queue[k].name) /\ InstalledName(queue[k].name) = key}
Last(S) == CHOOSE k \in S : \A j \in S : j <= k

\* C7 as the code has it: the entry under a key has the location of the last
\* queue entry whose installed package.json has that name; when every
\* installed package.json is named as its directory, that is the location of
\* the key itself.
C7_LocationOfDeclaredName ==
  ladp.st = "resolved"
    => /\ \A key \in Keys(ladp.v) :
            Get(Lookup(ladp.v, key), "location")
              = JStr(LocationOf(queue[Last(ReadAs(key))].name))
       /\ (\A name \in Declared : InstalledOk(name) => InstalledName(name) = name)
            => \A key \in Keys(ladp.v) :
                 Get(Lookup(ladp.v, key), "location") = JStr(LocationOf(key))

\* resolved with a name declared in both sections, one only in dependencies
\* and the locations the claim gives them
C7_Witness ==
  /\ ladp.st = "resolved"
  /\ \E a, b \in Keys(ladp.v) :
       /\ Includes(DeclaredIn("dependencies"), a)
       /\ Includes(DeclaredIn("devDependencies"), a)
       /\ Includes(DeclaredIn("dependencies"), b)
       /\ ~Includes(DeclaredIn("devDependencies"), b)
       /\ Get(Lookup(ladp.v, a), "location") = JStr("devDependencies")
       /\ Get(Lookup(ladp.v, b), "location") = JStr("dependencies")

\* C11: loadProjectDependencies rejects in the turn in which the first read
\* fails otherwise than by ENOENT, with that read's error and whatever reads
\* are still in flight; once settled it never changes, whatever the later
\* reads give; and a list it resolves with holds no null.
C11_RejectsAtOnce ==
  /\ [][\A k \in Entries :
          (lpd.st = "pending" /\ dq[k].io = "inflight" /\ dq'[k].st = "rejected")
            => lpd' = Failed(dq'[k].err)]_vars
  /\ [][lpd.st \in {"resolved", "rejected"} => lpd' = lpd]_vars
  /\ [](lpd.st = "resolved" => \A i \in 1..Len(lpd.v) : lpd.v[i] # JNull)

\* rejected with the first error, while a later read has failed with another
\* error and one more is still in flight
C11_Witness ==
  /\ lpd.st = "rejected"
  /\ \E i, j, m \in Entries :
       /\ dq[i].st = "rejected" /\ dq[i].err = lpd.err
       /\ dq[j].st = "rejected" /\ dq[j].err # lpd.err
       /\ dq[m].io = "inflight"

\* the names of the entries of the list loadProjectDependencies resolved with
ListName(i) == ToPropertyKey(Get(lpd.v[i], "name"))
DeclaredTwice ==
  {name \in Declared : /\ Includes(DeclaredIn("dependencies"), name)
                        /\ Includes(DeclaredIn("devDependencies"), name)}
\* some installed package.json is not named as its directory
Aliased == \E name \in Declared : InstalledOk(name) /\ InstalledName(name) # name

\* C12 as stated: the list folded into the mapping never holds two entries
\* of the same name.
C12_NoDuplicateNames ==
  lpd.st = "resolved"
    => \A i, j \in 1..Len(lpd.v) : i # j => ListName(i) # ListName(j)

\* C12 as the code has it: a name declared in both sections is queued and
\* read twice and appears twice in the list; with every installed
\* package.json named as its directory, two entries of one name are equal, so
\* that the fold replaces an entry by an equal one, and the names that appear
\* twice are exactly the installed ones declared in both sections.
C12_DuplicatesAreEqual ==
  (lpd.st = "resolved" /\ ~Aliased)
    => /\ \A i, j \in 1..Len(lpd.v) :
            ListName(i) = ListName(j) => lpd.v[i] = lpd.v[j]
       /\ {ListName(i) : i \in {k \in 1..Len(lpd.v) :
                                  \E j \in 1..Len(lpd.v) :
                                    j # k /\ ListName(j) = ListName(k)}}
            = {name \in DeclaredTwice : InstalledOk(name)}

\* resolved with a name of both sections twice in the list, next to a name
\* declared once
C12_Witness ==
  /\ lpd.st = "resolved" /\ ~Aliased
  /\ \E i, j, k \in 1..Len(lpd.v) :
       /\ i < j /\ ListName(i) = ListName(j) /\ ListName(i) \in DeclaredTwice
       /\ ListName(k) \notin DeclaredTwice

\* C13: loadProjects is resolved only when the load of every path has
\* settled and every read it issued has called back: while one read is
\* outstanding it stays pending, the other paths having finished or not; and
\* it never rejects.
C13_WaitsForEveryPath ==
  /\ lps.st = "resolved"
       => \A i \in Paths : proj[i].lp.st # "pending" /\ ReadsDone(i)
  /\ lps.st # "rejected"

\* every other path has finished loading, one read of the last path has not
\* called back, and loadProjects is pending
C13_Witness ==
  /\ lps.st = "pending"
  /\ \E i, j \in Paths :
       /\ i # j
       /\ proj[i].lp.st = "resolved" /\ ReadsDone(i)
       /\ proj[j].lp.st = "pending" /\ proj[j].pkg.st = "resolved"
       /\ Cardinality({f \in AuxReads : proj[j][f].io = "inflight"}) = 1

\* the package.json installed under a declared name, as JSON.parse gives it
InstalledJson(name) == JSONparse(installed[name].data).v

\* d is the Dependency of the installed package.json of name, for location
Described ==
  {"name", "description", "keywords", "version", "homepage", "license",
   "repository"}

IsDependencyOf(d, name, location) ==
  /\ Get(d, "status") = JStr("idle")
  /\ Get(d, "location") = JStr(location)
  /\ Keys(d.o) \subseteq Described \cup {"status", "location"}
  /\ \A field \in Described : Get(d, field) = Get(InstalledJson(name), field)

\* C14: a Dependency that loadProjectDependency resolves with has status
\* idle, the location it was called with (dependencies when called with
\* none), and besides these only the fields name, description, keywords,
\* version, homepage, license and repository which the installed package.json
\* has, with their values there: the version is the installed one.
C14_DependencyShape ==
  /\ \A k \in Entries :
       (dq[k].st = "resolved" /\ dq[k].v # JNull)
         => IsDependencyOf(dq[k].v, queue[k].name, queue[k].location)
  /\ (single.p.st = "resolved" /\ single.p.v # JNull)
       => IsDependencyOf(single.p.v, single.name,
                         IF single.location = Undefined THEN "dependencies"
                         ELSE single.location.s)

\* a direct call without location has resolved to a Dependency with the
\* installed version, the installed package.json having a field that is not
\* let through
C14_Witness ==
  /\ single.p.st = "resolved" /\ single.location = Undefined
  /\ Get(single.p.v, "location") = JStr("dependencies")
  /\ Get(single.p.v, "version") = JStr("1.2.0")
  /\ HasKey(InstalledJson(single.name), "main")

\* C15: the record loadProject resolves with has every field the package.json
\* declared, with the value it had there.
C15_DeclaredFieldsKept ==
  \A i \in Paths :
    proj[i].lp.st = "resolved"
      => \A k \in 1..Len(proj[i].pkg.v.o) :
           Get(proj[i].lp.v.json, proj[i].pkg.v.o[k][1]) = proj[i].pkg.v.o[k][2]

\* the queue a descriptor's sections call for: the names of dependencies,
\* then those of devDependencies, each with the section it counts under
QueueOf(json) ==
  LET deps == SectionKeys(Get(json, "dependencies"))
      devDeps == SectionKeys(Get(json, "devDependencies"))
      names == deps \o devDeps
  IN [k \in 1..Len(names) |->
        [name |-> names[k],
         location |-> IF \E j \in 1..Len(devDeps) : devDeps[j] = names[k]
                      THEN "devDependencies" ELSE "dependencies"]]

\* C16: a call of loadAllProjectDependencies started after writePackageJson
\* resolved works from the written descriptor, whatever an earlier call read:
\* its queue is that of the written sections, and the mapping it resolves
\* with has the installed names among them, with their locations.
C16_FreshDescriptor ==
  (rdAfter /\ dpkg.io = "done")
    => /\ dpkg = Resolved(wr.json)
       /\ queue = QueueOf(wr.json)
       /\ ladp.st = "resolved"
            => /\ Keys(ladp.v) = {queue[k].name : k \in {j \in Entries : InstalledOk(queue[j].name)}}
               /\ \A k \in Entries :
                    InstalledOk(queue[k].name)
                      => Get(Lookup(ladp.v, queue[k].name), "location")
                           = JStr(queue[k].location)

\* a second call, made after a write that changed the sections, has resolved
\* with another set of names than the first call had read
C16_Witness ==
  /\ rdAfter /\ ladp.st = "resolved"
  /\ seen.st = "resolved" /\ seen.v # dpkg.v
  /\ QueueOf(seen.v) # queue
  /\ Keys(ladp.v) # {} 
  /\ \E name \in Keys(ladp.v) : ~Includes([k \in 1..Len(QueueOf(seen.v)) |-> QueueOf(seen.v)[k].name], name)

\* C17: once every read a call of loadAllProjectDependencies issued has called
\* back, the promise it returned is settled; no read being outstanding,
\* nothing is left that could settle it later.
C17_SettlesWhenReadsDone ==
  (ladp.st # "idle" /\ dpkg.io = "done" /\ \A k \in Entries : dq[k].io = "done")
    => ladp.st \in {"resolved", "rejected"}

\* the queue entries whose installed package.json is there, in queue order
Found ==
  SelectSeq([k \in Entries |-> k], LAMBDA k : installed[queue[k].name] # Missing)

\* C18: the list loadProjectDependencies resolves with has one entry for
\* every queue entry whose installed package.json was found, in the order of
\* the queue: a function of the queue and the files alone, the same in every
\* order in which the reads call back.
C18_QueueOrder ==
  lpd.st = "resolved"
    => /\ Len(lpd.v) = Len(Found)
       /\ \A i \in 1..Len(Found) :
            IsDependencyOf(lpd.v[i], queue[Found[i]].name, queue[Found[i]].location)

\* resolved with a queue of three, the entry in the middle not found and the
\* two others in the list
C18_Witness ==
  /\ lpd.st = "resolved"
  /\ Len(queue) = 3 /\ Found = <<1, 3>>
  /\ Len(lpd.v) = 2

(***************************************************************************)
(* Properties of CommandsPane.                                             *)
(***************************************************************************)
Identifiers(cmds) == {cmds[i].identifier : i \in 1..Len(cmds)}

\* C19: after every update selectedCommandId is null or the identifier of a
\* command of the project; new commands keep a selection that is still
\* among them and reset the others to null, addingNewCommand staying as it
\* was.
C19_SelectionExists ==
  /\ [](pane.selectedCommandId \in {JNull} \cup Identifiers(commands))
  /\ [][commands' # commands
          => /\ pane'.addingNewCommand = pane.addingNewCommand
             /\ pane'.selectedCommandId =
                  IF pane.selectedCommandId \in Identifiers(commands')
                  THEN pane.selectedCommandId ELSE JNull]_vars

\* the selected command has just been removed from the project while the
\* modal was open: the selection is null, the modal still open
C19_Witness ==
  /\ lastEv.type = "props" /\ lastEv.was # JNull
  /\ lastEv.was \notin Identifiers(commands)
  /\ commands # <<>>
  /\ pane.selectedCommandId = JNull
  /\ pane.addingNewCommand

(***************************************************************************)
(* Properties of AddCommandModal.                                          *)
(***************************************************************************)
\* the modifiers held, in the order cmd+, ctrl+, option+, shift+
Held(ev) ==
  SelectSeq(<<"cmd+", "ctrl+", "option+", "shift+">>,
            LAMBDA m : \/ m = "cmd+" /\ ev.metaKey
                       \/ m = "ctrl+" /\ ev.ctrlKey
                       \/ m = "option+" /\ ev.altKey
                       \/ m = "shift+" /\ ev.shiftKey)

RECURSIVE Joined(_)
Joined(parts) == IF parts = <<>> THEN "" ELSE Head(parts) \o Joined(Tail(parts))

\* C20: a keydown changes nothing but shortcut, and that only while
\* activeField is shortcut: Backspace sets it to null, Tab and a bare
\* modifier key leave it, any other key sets it to the held modifiers in the
\* order cmd+, ctrl+, option+, shift+ followed by the key's character.
C20_KeyDownFrame ==
  [][lastEv'.type = "keydown"
      => LET ev == lastEv'.ev IN
         /\ modal'.name = modal.name
         /\ modal'.activeField = modal.activeField
         /\ modal.activeField # "shortcut" => modal'.shortcut = modal.shortcut
         /\ modal.activeField = "shortcut" =>
              modal'.shortcut =
                IF ev.key = "Backspace" THEN JNull
                ELSE IF ev.key \in {"Tab", "Shift", "Control", "Alt", "Meta"}
                THEN modal.shortcut
                ELSE JStr(Joined(Held(ev)) \o fromCharCode(ev.which))]_vars

\* a key pressed with all four modifiers held has been recorded
C20_Witness ==
  /\ lastEv.type = "keydown" /\ lastEv.ev.key = "a"
  /\ modal.activeField = "shortcut"
  /\ modal.name = "run"
  /\ modal.shortcut = JStr("cmd+ctrl+option+shift+A")

====
